---- MODULE Spec2Model ----
(***************************************************************************)
(* Model of tasks/merging.py: the merge_upstream task, its configuration,  *)
(* its precondition checks, the two context managers that guard it         *)
(* (_preserving_branch_and_commit, _merge_remote), the merge-and-push      *)
(* step and the pull-request fallback.                                     *)
(*                                                                         *)
(* Every ctx.run(...) of the task is one step.  A command run without      *)
(* warn=True raises UnexpectedExit when the tool fails; a command run with *)
(* warn=True returns a result whose .ok is False.  Tool failures are       *)
(* injected nondeterministically, as many as the initial state allows      *)
(* (MaxFaults of them per behaviour of Spec).                              *)
(*                                                                         *)
(* A commit is modelled by the set of commits it descends from, itself     *)
(* included; a commit is named by an atom <<kind, n>>.  The empty set      *)
(* stands for "no commit" (an unset ref).                                  *)
(***************************************************************************)
EXTENDS Integers, Sequences, FiniteSets, TLC

\* ------------------------------------------------------------------ bounds
MaxRuns == 2        \* invocations of merge_upstream in one behaviour
MaxFaults == 1      \* injected tool failures in one behaviour
MaxUpstream == 1    \* commits that appear on conan-io's branch meanwhile
MaxFork == 1        \* commits others push to the private fork meanwhile
MaxPackages == 3    \* packages handed to upload_in_parallel
MaxWorkers == 2     \* worker threads of the ThreadPoolExecutor

\* --------------------------------------------------------------- constants
StatusMissing == "missing"   \* .merge-upstream-status does not exist

NoCommit == {}
BaseCommit == {<<"A", 0>>}
WorkCommit == BaseCommit \cup {<<"W", 0>>}
WorkBranch == "work"
Detached == "HEAD"

NoErr == [type |-> "none", cmd |-> "-"]
Err(t, c) == [type |-> t, cmd |-> c]
UnexpectedExit(c) == Err("UnexpectedExit", c)
MergeHadConflicts == Err("MergeHadConflicts", "-")

\* MergeStatus
UP_TO_DATE == "UP_TO_DATE"
MERGED == "MERGED"
PULL_REQUEST == "PULL_REQUEST"
MergeStatus == {UP_TO_DATE, MERGED, PULL_REQUEST}

\* ----------------------------------------------------------- configuration
ConanCenterIndexConfig ==
    [url |-> "git@github.com:conan-io/conan-center-index.git", branch |-> "master"]

UpstreamConfig ==
    [host |-> "octocat.dlogics.com", organization |-> "datalogics",
     branch |-> "develop", remote_name |-> "merge-upstream-remote"]

PullRequestConfig ==
    [host |-> "octocat.dlogics.com", fork |-> "user",
     merge_branch_name |-> "merge-from-conan-io",
     reviewers |-> <<>>, assignee |-> "None", labels |-> <<"from-conan-io">>]

MergeUpstreamConfig ==
    [cci |-> ConanCenterIndexConfig, upstream |-> UpstreamConfig,
     pull_request |-> PullRequestConfig]

\* UpstreamConfig.url
UpstreamUrl(cfg) ==
    <<"git@", cfg.upstream.host, ":", cfg.upstream.organization, "/conan-center-index.git">>

\* PullRequestConfig.url
PullRequestUrl(cfg) ==
    <<"git@", cfg.pull_request.host, ":", cfg.pull_request.fork, "/conan-center-index.git">>

\* The merge_upstream sections of dlproject.yaml that a run may find.
EmptyDoc == [k \in {} |-> [f \in {} |-> ""]]
Docs ==
    { EmptyDoc,
      [bogus |-> [url |-> "x"]],
      [upstream |-> [bogus |-> "x"]] }

\* A strictness that looks at the top-level keys only.
StrictOkTopLevel(doc) == DOMAIN doc \subseteq DOMAIN MergeUpstreamConfig

\* dacite.from_dict(..., Config(strict=True)): a key that is no field of the
\* data class, at any level, is an error.
StrictOk(doc) ==
    /\ DOMAIN doc \subseteq DOMAIN MergeUpstreamConfig
    /\ \A s \in DOMAIN doc : DOMAIN doc[s] \subseteq DOMAIN MergeUpstreamConfig[s]

\* dacite.from_dict: the fields the document gives override the defaults.
FromDict(doc) ==
    [s \in DOMAIN MergeUpstreamConfig |->
        [f \in DOMAIN MergeUpstreamConfig[s] |->
            IF s \in DOMAIN doc /\ f \in DOMAIN doc[s]
            THEN doc[s][f]
            ELSE MergeUpstreamConfig[s][f]]]

\* --------------------------------------------------------------- variables
VARIABLES
    pc,            \* position of the running invocation, or "idle" / "done"
    err,           \* the exception in flight, or at "done" the one that reached the caller
    runs,          \* invocations started so far
    faults,        \* tool failures that may still be injected
    trace,         \* the commands and steps of the current invocation, in order
    raised,        \* the exception _merge_and_push raised in the current invocation
    previous,      \* what the previous invocation recorded and did to pull requests
    config,        \* merge_upstream: config
    branch,        \* _preserving_branch_and_commit: branch
    commit,        \* _preserving_branch_and_commit: commit
    merge_status,  \* value handed to _write_status_file
    pr_body,       \* merge_upstream: pr_body
    existing_prs,  \* _create_pull_request: existing_prs
    statusFile,    \* content of .merge-upstream-status, or "missing"
    curBranch,     \* git: the checked-out branch, "HEAD" when detached
    headCommit,    \* git: the commit HEAD resolves to
    branchTip,     \* git: the tip of the local branch
    dirty,         \* git: the work tree has uncommitted changes
    remotes,       \* git: remote name -> URL
    tracking,      \* git: refs/remotes/<remote_name>/<branch>
    fetchHead,     \* git: FETCH_HEAD
    mergeHead,     \* git: MERGE_HEAD (a merge is in progress when set)
    unmerged,      \* git: the unmerged paths of the index
    cciTip,        \* conan-io: tip of cci.branch
    forkTip,       \* private fork: tip of upstream.branch
    prForkTip,     \* pull-request fork: tip of merge_branch_name
    prs,           \* open pull requests of the destination repository
    dlproject,     \* dlproject.yaml: its merge_upstream section
    parked,        \* a second invocation on the same checkout: its own state
                   \* while the other invocation is the one taking steps
    uploads,       \* upload_in_parallel: the state of each package's future
    work_queue,    \* ThreadPoolExecutor: the submitted work no worker has taken
    upload_pc,     \* upload_in_parallel: position of the calling thread
    yielded,       \* as_completed: the futures it has handed out
    future,        \* upload_in_parallel: future (the package it belongs to)
    unstarted      \* the uploads that had not started when the first one failed

ctl == <<pc, err, runs, faults, trace, raised, previous>>
locals == <<config, branch, commit, merge_status, pr_body, existing_prs>>
git == <<curBranch, headCommit, branchTip, dirty, remotes, tracking, fetchHead, mergeHead, unmerged>>
world == <<cciTip, forkTip, prForkTip, prs>>
\* What no step of merge_upstream writes.
uploading == <<uploads, work_queue, upload_pc, yielded, future, unstarted>>
untouched == <<dlproject, parked, uploading>>
vars == <<ctl, locals, statusFile, git, world, untouched>>

\* ----------------------------------------------------------------- helpers
\* A tool may fail on its own account while the fault budget lasts.
FaultChoices == IF faults > 0 THEN BOOLEAN ELSE {FALSE}
CountFault(f) == faults' = IF f THEN faults - 1 ELSE faults

\* A command or step is recorded with its result (.ok of the command) and
\* with whether the tool failed on its own account.
Log(cmd, ok, fault) == trace' = Append(trace, [cmd |-> cmd, ok |-> ok, fault |-> fault])

NoBody == [files |-> {}, upstream |-> {}, local |-> {}]
StaleBody == [files |-> {"stale"}, upstream |-> {}, local |-> {}]

OriginUrl == <<"git@", "github.com", ":", "someone", "/conan-center-index.git">>
StaleUrl == <<"git@", "old.example.com", ":", "datalogics", "/conan-center-index.git">>

\* A remote that keeps the URL it already has.
SetRemoteIfAbsent(rs, name, url) ==
    [n \in DOMAIN rs \cup {name} |-> IF n \in DOMAIN rs THEN rs[n] ELSE url]

SetRemote(rs, name, url) ==
    [n \in DOMAIN rs \cup {name} |-> IF n = name THEN url ELSE rs[n]]
\* A removal that takes every remote with it.
DelEveryRemote(rs, name) == [n \in {} |-> <<>>]

\* git remote remove {name}
DelRemote(rs, name) == [n \in DOMAIN rs \ {name} |-> rs[n]]

\* Pull requests open on the destination repository before the first run.
OtherPR == [number |-> 1, headRefName |-> "merge-from-conan-io", owner |-> "someone", body |-> StaleBody]
OwnPR == [number |-> 2, headRefName |-> "merge-from-conan-io", owner |-> "user", body |-> StaleBody]
OwnPR2 == [number |-> 3, headRefName |-> "merge-from-conan-io", owner |-> "user", body |-> StaleBody]
InitialPRs == { {OtherPR}, {OtherPR, OwnPR}, {OtherPR, OwnPR, OwnPR2} }

Paths == {"recipes/a/conanfile.py", "recipes/b/conanfile.py"}
Platforms == {"Linux", "Darwin", "Windows"}

\* The commands of the current invocation that succeeded, and those attempted.
Succeeded(cmd) == \E i \in 1..Len(trace) : trace[i].cmd = cmd /\ trace[i].ok
Attempted(cmd) == \E i \in 1..Len(trace) : trace[i].cmd = cmd

\* What an invocation leaves for the next one to be compared with.
NoRun == [status |-> "none", pr |-> "none"]
Summary ==
    [status |-> IF Attempted("write_status") THEN merge_status ELSE "none",
     pr |-> IF Succeeded("pr_create") THEN "created"
            ELSE IF Succeeded("pr_edit") THEN "edited" ELSE "none"]

\* The state one invocation keeps to itself.
Invocation(id) ==
    [id |-> id, pc |-> "load_config", err |-> NoErr, trace |-> <<>>, raised |-> NoErr,
     config |-> MergeUpstreamConfig, branch |-> Detached, commit |-> NoCommit,
     merge_status |-> "none", pr_body |-> NoBody, existing_prs |-> {},
     suspended |-> FALSE]
NoInvocation == [Invocation(0) EXCEPT !.pc = "done"]

\* upload_in_parallel has not been called.
NoUpload ==
    /\ uploads = [p \in 1..MaxPackages |-> "unsubmitted"]
    /\ work_queue = <<>>
    /\ upload_pc = "idle"
    /\ yielded = {}
    /\ future = 0
    /\ unstarted = {}

\* The state before an invocation: conan-io's branch is at tip, started
\* invocations have come and gone without a trace, and the tools may fail
\* failures times.
InitAt(tip, started, failures) ==
    /\ pc = "idle"
    /\ err = NoErr
    /\ runs = started
    /\ faults = failures
    /\ trace = <<>>
    /\ raised = NoErr
    /\ previous = NoRun
    /\ config = MergeUpstreamConfig
    /\ branch = Detached
    /\ commit = NoCommit
    /\ merge_status = "none"
    /\ pr_body = NoBody
    /\ existing_prs = {}
    /\ statusFile \in {StatusMissing, MERGED}
    /\ curBranch \in {WorkBranch, Detached}
    /\ headCommit = WorkCommit
    /\ branchTip = WorkCommit
    /\ dirty \in BOOLEAN
    /\ remotes \in { [n \in {"origin"} |-> OriginUrl],
                     [n \in {"origin", UpstreamConfig.remote_name} |->
                         IF n = "origin" THEN OriginUrl ELSE StaleUrl] }
    /\ tracking = NoCommit
    /\ fetchHead = NoCommit
    /\ mergeHead = NoCommit
    /\ unmerged = {}
    /\ cciTip = tip
    /\ forkTip = BaseCommit
    /\ prForkTip = NoCommit
    /\ prs \in InitialPRs
    /\ dlproject \in Docs
    /\ parked = NoInvocation
    /\ NoUpload

\* conan-io's branch and the private fork's branch are at the same commit.
Init == InitAt(BaseCommit, 0, MaxFaults)

\* ------------------------------------------------------------- environment
\* Somebody commits to conan-io's branch.  The task reads that branch only
\* with git fetch, so a commit landing at any moment is seen exactly as one
\* landing just before the next fetch.
ReadsUpstream == {"fetch", "pr_fetch"}

UpstreamAdvance ==
    LET n == Cardinality({a \in cciTip : a[1] = "U"}) IN
    /\ pc \in ReadsUpstream
    /\ n < MaxUpstream
    /\ cciTip' = cciTip \cup {<<"U", n + 1>>}
    /\ UNCHANGED <<untouched, ctl, locals, statusFile, git, forkTip, prForkTip, prs>>

\* Somebody else pushes a commit to the private fork's branch.  The task
\* reaches that branch only with git remote update and git push.
ReachesFork == {"remote_update", "push"}

ForkAdvance ==
    LET n == Cardinality({a \in forkTip : a[1] = "L"}) IN
    /\ pc \in ReachesFork
    /\ n < MaxFork
    /\ forkTip' = forkTip \cup {<<"L", n + 1>>}
    /\ UNCHANGED <<untouched, ctl, locals, statusFile, git, cciTip, prForkTip, prs>>

\* ---------------------------------------------------------- merge_upstream
\* The task is invoked.
StartRun ==
    /\ pc \in {"idle", "done"}
    /\ runs < MaxRuns
    /\ runs' = runs + 1
    /\ pc' = "load_config"
    /\ err' = NoErr
    /\ trace' = <<>>
    /\ raised' = NoErr
    /\ previous' = Summary
    /\ branch' = Detached
    /\ commit' = NoCommit
    /\ merge_status' = "none"
    /\ pr_body' = NoBody
    /\ existing_prs' = {}
    /\ UNCHANGED <<untouched, faults, config, statusFile, git, world>>

\* The position that follows position p in the sequence of steps plan.
StepAfter(plan, p, last) ==
    LET k == CHOOSE i \in 1..Len(plan) : plan[i] = p IN
    IF k < Len(plan) THEN plan[k + 1] ELSE last

\* The work tree examined before the platform.
PreconditionOrderCleanFirst == <<"check_clean", "check_platform", "check_gh", "check_auth">>

\* _check_preconditions: the checks in the order the function makes them;
\* each either passes on to the next or raises Exit with its own message.
PreconditionOrder == <<"check_platform", "check_clean", "check_gh", "check_auth">>
AfterPreconditions == "remove_status"

\* Checks made inside the guarded scope: a failing one unwinds the guards.
FailedPreconditionUnwinds == "remote_remove"

\* _check_preconditions is called before the with statement: the Exit of a
\* failing check meets no handler and ends the run.
AfterFailedPrecondition == "done"

\* A failed load after which the run goes on to the checks.
FailedLoadGoesOn == "check_platform"

\* The call of create_from_dlproject is the first statement of the task, in
\* no try or with statement: its ConfigurationError ends the run.
AfterFailedLoad == "done"

\* config = MergeUpstreamConfig.create_from_dlproject()
LoadConfig ==
    /\ pc = "load_config"
    /\ LET doc == dlproject IN
         /\ Log("load_config", StrictOk(doc), FALSE)
         /\ IF StrictOk(doc)
            THEN /\ config' = FromDict(doc)
                 /\ pc' = PreconditionOrder[1]
                 /\ err' = err
            ELSE /\ config' = config
                 /\ pc' = AfterFailedLoad
                 /\ err' = Err("ConfigurationError", "-")
    /\ UNCHANGED <<untouched, runs, raised, previous, faults, branch, commit, merge_status, pr_body, existing_prs,
                   statusFile, git, world>>

CheckResult(check, passed, fault) ==
    /\ pc = check
    /\ Log(check, passed, fault)
    /\ IF passed
       THEN pc' = StepAfter(PreconditionOrder, check, AfterPreconditions) /\ err' = err
       ELSE pc' = AfterFailedPrecondition /\ err' = Err("Exit", check)
    /\ UNCHANGED <<untouched, runs, raised, previous, locals, statusFile, git, world>>

\* platform.system() not in ['Darwin', 'Linux']
CheckPlatform ==
    \E system \in Platforms :
        CheckResult("check_platform", system \in {"Darwin", "Linux"}, FALSE) /\ UNCHANGED faults

\* git diff-index --quiet HEAD --   (warn=True)
CheckClean ==
    \E f \in FaultChoices :
        CheckResult("check_clean", ~dirty /\ ~f, f) /\ CountFault(f)

\* shutil.which('gh')
CheckGh ==
    \E installed \in BOOLEAN :
        CheckResult("check_gh", installed, FALSE) /\ UNCHANGED faults

\* gh auth status --hostname <host>   (warn=True)
CheckAuth ==
    \E ok \in BOOLEAN :
        CheckResult("check_auth", ok, FALSE) /\ UNCHANGED faults

\* A removal that leaves the file in place.
StatusFileKept(content) == content

\* os.remove(MERGE_UPSTREAM_STATUS), FileNotFoundError ignored: the file is
\* gone, whether or not it was there.
StatusFileRemoved(content) == StatusMissing

\* _remove_status_file()
RemoveStatusFile ==
    /\ pc = "remove_status"
    /\ Log("remove_status", TRUE, FALSE)
    /\ statusFile' = StatusFileRemoved(statusFile)
    /\ pc' = "save_branch"
    /\ UNCHANGED <<untouched, err, runs, raised, previous, faults, locals, git, world>>

\* An exception raised at a step is recorded and control moves to the
\* innermost enclosing handler or finally clause.
Raise(e, handler) == err' = e /\ pc' = handler
Continue(next) == err' = err /\ pc' = next

\* -------------------------------------------- _preserving_branch_and_commit
\* git rev-parse --abbrev-ref HEAD
SaveBranch ==
    /\ pc = "save_branch"
    /\ \E f \in FaultChoices :
         /\ CountFault(f)
         /\ Log("rev_parse_branch", ~f, f)
         /\ IF f
            THEN Raise(UnexpectedExit("rev_parse_branch"), "done") /\ branch' = branch
            ELSE Continue("save_commit") /\ branch' = curBranch
    /\ UNCHANGED <<untouched, runs, raised, previous, config, commit, merge_status, pr_body, existing_prs,
                   statusFile, git, world>>

\* git rev-parse HEAD
SaveCommit ==
    /\ pc = "save_commit"
    /\ \E f \in FaultChoices :
         /\ CountFault(f)
         /\ Log("rev_parse_commit", ~f, f)
         /\ IF f
            THEN Raise(UnexpectedExit("rev_parse_commit"), "done") /\ commit' = commit
            ELSE Continue("remote_get_url") /\ commit' = headCommit
    /\ UNCHANGED <<untouched, runs, raised, previous, config, branch, merge_status, pr_body, existing_prs,
                   statusFile, git, world>>

\* A restoration that detaches whatever was checked out at entry.
RestoreAlwaysDetached(b) == TRUE

\* if branch == 'HEAD'
RestoreDetached(b) == b = Detached

\* A checkout that leaves the entries of the index as they are.
CheckoutKeepsIndex(index) == index

\* git checkout --force: the index is read from the commit checked out; the
\* unmerged entries are thrown away.
CheckoutForce(index) == {}

\* git checkout --quiet --detach {commit}   /   git checkout --quiet --force {branch}
\* The plain checkout refuses to leave an index with unmerged entries; the
\* forced one discards them.  Switching ends a merge in progress.
RestoreCheckout ==
    /\ pc = "restore_checkout"
    /\ \E f \in FaultChoices :
         /\ CountFault(f)
         /\ Log("restore_checkout", ~(f \/ (RestoreDetached(branch) /\ unmerged # {})), f)
         /\ IF RestoreDetached(branch)
            THEN IF f \/ unmerged # {}
                 THEN /\ Raise(UnexpectedExit("restore_checkout"), "done")
                      /\ UNCHANGED <<curBranch, headCommit, mergeHead, unmerged, dirty>>
                 ELSE /\ Continue("restore_reset")
                      /\ curBranch' = Detached
                      /\ headCommit' = commit
                      /\ mergeHead' = NoCommit
                      /\ UNCHANGED <<unmerged, dirty>>
            ELSE IF f
                 THEN /\ Raise(UnexpectedExit("restore_checkout"), "done")
                      /\ UNCHANGED <<curBranch, headCommit, mergeHead, unmerged, dirty>>
                 ELSE /\ Continue("restore_reset")
                      /\ curBranch' = branch
                      /\ headCommit' = branchTip
                      /\ mergeHead' = NoCommit
                      /\ unmerged' = CheckoutForce(unmerged)
                      /\ dirty' = FALSE
    /\ UNCHANGED <<untouched, runs, raised, previous, locals, statusFile, branchTip, remotes, tracking, fetchHead, world>>

\* git reset --hard HEAD   /   git reset --hard {commit}
ResetTarget(b, c, head) == IF RestoreDetached(b) THEN head ELSE c

RestoreReset ==
    /\ pc = "restore_reset"
    /\ \E f \in FaultChoices :
         /\ CountFault(f)
         /\ Log("restore_reset", ~f, f)
         /\ IF f
            THEN /\ Raise(UnexpectedExit("restore_reset"), "done")
                 /\ UNCHANGED <<headCommit, branchTip, mergeHead, unmerged, dirty>>
            ELSE /\ Continue("done")
                 /\ headCommit' = ResetTarget(branch, commit, headCommit)
                 /\ branchTip' = IF curBranch = Detached THEN branchTip
                                 ELSE ResetTarget(branch, commit, headCommit)
                 /\ mergeHead' = NoCommit
                 /\ unmerged' = {}
                 /\ dirty' = FALSE
    /\ UNCHANGED <<untouched, runs, raised, previous, locals, statusFile, curBranch, remotes, tracking, fetchHead, world>>

\* ------------------------------------------------------------ _merge_remote
\* git remote get-url {remote_name}   (warn=True)
\* if result.ok and result.stdout.strip() != ''
RemoteKnown(ok, stdout) == ok /\ stdout # <<>>

RemoteGetUrl ==
    /\ pc = "remote_get_url"
    /\ \E f \in FaultChoices :
         /\ CountFault(f)
         /\ Log("remote_get_url", ~f /\ config.upstream.remote_name \in DOMAIN remotes, f)
         /\ IF RemoteKnown(~f /\ config.upstream.remote_name \in DOMAIN remotes,
                         IF config.upstream.remote_name \in DOMAIN remotes
                         THEN remotes[config.upstream.remote_name] ELSE <<>>)
            THEN Continue("remote_set_url")
            ELSE Continue("remote_add")
    /\ UNCHANGED <<untouched, runs, raised, previous, locals, statusFile, git, world>>

\* A try statement that begins only at the yield.
FailedSetupSkipsRemoval == "restore_checkout"

\* A failed setting up that is tried again.
FailedSetupRetries == "remote_get_url"

\* The commands that set the remote up are inside the try statement of
\* _merge_remote: when one raises, the finally clause runs.
AfterFailedSetup == "remote_remove"

\* git remote set-url {remote_name} {url}
RemoteSetUrl ==
    /\ pc = "remote_set_url"
    /\ \E f \in FaultChoices :
         /\ CountFault(f)
         /\ Log("remote_set_url", ~(f \/ config.upstream.remote_name \notin DOMAIN remotes), f)
         /\ IF f \/ config.upstream.remote_name \notin DOMAIN remotes
            THEN Raise(UnexpectedExit("remote_set_url"), AfterFailedSetup) /\ remotes' = remotes
            ELSE /\ Continue("remote_update")
                 /\ remotes' = SetRemote(remotes, config.upstream.remote_name, UpstreamUrl(config))
    /\ UNCHANGED <<untouched, runs, raised, previous, locals, statusFile, curBranch, headCommit, branchTip, dirty,
                   tracking, fetchHead, mergeHead, unmerged, world>>

\* git remote add {remote_name} {url}
RemoteAdd ==
    /\ pc = "remote_add"
    /\ \E f \in FaultChoices :
         /\ CountFault(f)
         /\ Log("remote_add", ~(f \/ config.upstream.remote_name \in DOMAIN remotes), f)
         /\ IF f \/ config.upstream.remote_name \in DOMAIN remotes
            THEN Raise(UnexpectedExit("remote_add"), AfterFailedSetup) /\ remotes' = remotes
            ELSE /\ Continue("remote_update")
                 /\ remotes' = SetRemote(remotes, config.upstream.remote_name, UpstreamUrl(config))
    /\ UNCHANGED <<untouched, runs, raised, previous, locals, statusFile, curBranch, headCommit, branchTip, dirty,
                   tracking, fetchHead, mergeHead, unmerged, world>>

\* git remote update {remote_name}
RemoteUpdate ==
    /\ pc = "remote_update"
    /\ \E f \in FaultChoices :
         /\ CountFault(f)
         /\ Log("remote_update", ~(f \/ config.upstream.remote_name \notin DOMAIN remotes), f)
         /\ IF f \/ config.upstream.remote_name \notin DOMAIN remotes
            THEN Raise(UnexpectedExit("remote_update"), AfterFailedSetup) /\ tracking' = tracking
            ELSE Continue("checkout_detach") /\ tracking' = forkTip
    /\ UNCHANGED <<untouched, runs, raised, previous, locals, statusFile, curBranch, headCommit, branchTip, dirty,
                   remotes, fetchHead, mergeHead, unmerged, world>>

\* A removal run without warn=True.
RemoteRemoveRaises == FALSE

\* git remote remove is run with warn=True: its failure is a result, not an
\* exception.
RemoteRemoveWarns == TRUE

\* finally: git remote remove {remote_name}   (warn=True)
RemoteRemove ==
    /\ pc = "remote_remove"
    /\ \E f \in FaultChoices :
         /\ CountFault(f)
         /\ Log("remote_remove", ~(f \/ config.upstream.remote_name \notin DOMAIN remotes), f)
         /\ IF f \/ config.upstream.remote_name \notin DOMAIN remotes
            THEN /\ UNCHANGED <<remotes, tracking>>
                 /\ IF RemoteRemoveWarns
                    THEN Continue("restore_checkout")
                    ELSE Raise(UnexpectedExit("remote_remove"), "restore_checkout")
            ELSE /\ remotes' = DelRemote(remotes, config.upstream.remote_name)
                 /\ tracking' = NoCommit
                 /\ Continue("restore_checkout")
    /\ UNCHANGED <<untouched, runs, raised, previous, locals, statusFile, curBranch, headCommit, branchTip, dirty,
                   fetchHead, mergeHead, unmerged, world>>

\* ---------------------------------------------------------- _merge_and_push
\* git checkout --quiet --detach {remote_name}/{branch}
CheckoutDetach ==
    /\ pc = "checkout_detach"
    /\ \E f \in FaultChoices :
         /\ CountFault(f)
         /\ Log("checkout_detach", ~(f \/ tracking = NoCommit), f)
         /\ IF f \/ tracking = NoCommit
            THEN /\ Raise(UnexpectedExit("checkout_detach"), "remote_remove")
                 /\ UNCHANGED <<curBranch, headCommit>>
            ELSE /\ Continue("fetch")
                 /\ curBranch' = Detached
                 /\ headCommit' = tracking
    /\ UNCHANGED <<untouched, runs, raised, previous, locals, statusFile, branchTip, dirty, remotes, tracking,
                   fetchHead, mergeHead, unmerged, world>>

\* git fetch {cci.url} {cci.branch}
Fetch ==
    /\ pc = "fetch"
    /\ \E f \in FaultChoices :
         /\ CountFault(f)
         /\ Log("fetch", ~f, f)
         /\ IF f
            THEN Raise(UnexpectedExit("fetch"), "remote_remove") /\ fetchHead' = fetchHead
            ELSE Continue("merge") /\ fetchHead' = cciTip
    /\ UNCHANGED <<untouched, runs, raised, previous, locals, statusFile, curBranch, headCommit, branchTip, dirty,
                   remotes, tracking, mergeHead, unmerged, world>>

\* What git merge --no-ff --no-edit FETCH_HEAD can do in the current state:
\* nothing when FETCH_HEAD is already contained in HEAD; otherwise a merge
\* commit, or a stop on conflicts; and, as tool failures, a refusal that
\* changes nothing or a merge whose commit could not be created.
MergeOutcomes ==
    (IF fetchHead \subseteq headCommit THEN {"up_to_date"} ELSE {"clean", "conflict"})
    \cup (IF faults > 0 THEN {"refused"} ELSE {})
    \cup (IF faults > 0 /\ ~(fetchHead \subseteq headCommit)
          THEN {"uncommitted"} ELSE {})

ConflictSets == SUBSET Paths \ {{}}

\* A merge that fast-forwards instead of creating a merge commit.
FastForward(head, other, n) == head \cup other

\* git merge --no-ff: a new commit whose parents are HEAD and FETCH_HEAD
MergeCommit(head, other, n) == head \cup other \cup {<<"M", n>>}

\* merge_result = git merge --no-ff --no-edit --into-name {branch} FETCH_HEAD   (warn=True)
\* if merge_result.ok: ... else: ...
Merge ==
    /\ pc = "merge"
    /\ \E outcome \in MergeOutcomes, files \in ConflictSets :
         /\ Log("merge", outcome \in {"up_to_date", "clean"}, outcome \in {"refused", "uncommitted"})
         /\ outcome # "conflict" => files = CHOOSE x \in ConflictSets : TRUE
         /\ CountFault(outcome \in {"refused", "uncommitted"})
         /\ CASE outcome = "up_to_date" ->
                   /\ Continue("count_revs")
                   /\ UNCHANGED <<headCommit, mergeHead, unmerged, dirty>>
              [] outcome = "clean" ->
                   /\ Continue("count_revs")
                   /\ headCommit' = MergeCommit(headCommit, fetchHead, runs)
                   /\ UNCHANGED <<mergeHead, unmerged, dirty>>
              [] outcome = "conflict" ->
                   /\ Continue("ls_files")
                   /\ mergeHead' = fetchHead
                   /\ unmerged' = files
                   /\ dirty' = TRUE
                   /\ UNCHANGED headCommit
              [] outcome = "refused" ->
                   /\ Continue("ls_files")
                   /\ UNCHANGED <<headCommit, mergeHead, unmerged, dirty>>
              [] outcome = "uncommitted" ->
                   /\ Continue("ls_files")
                   /\ mergeHead' = fetchHead
                   /\ dirty' = TRUE
                   /\ UNCHANGED <<headCommit, unmerged>>
    /\ UNCHANGED <<untouched, runs, raised, previous, locals, statusFile, curBranch, branchTip, remotes, tracking,
                   fetchHead, world>>

\* A push decided without looking at the count.
NeedsPushAlways(count) == TRUE

\* needs_push = int(count_revs_result.stdout) != 0
NeedsPush(count) == count # 0

\* git rev-list {remote_name}/{branch}..HEAD --count
\* The command fails when the remote-tracking ref does not exist.
CountRevs ==
    /\ pc = "count_revs"
    /\ \E f \in FaultChoices :
         /\ CountFault(f)
         /\ Log("count_revs", ~(f \/ tracking = NoCommit), f)
         /\ IF f \/ tracking = NoCommit
            THEN Raise(UnexpectedExit("count_revs"), "remote_remove") /\ merge_status' = merge_status
            ELSE IF NeedsPush(Cardinality(headCommit \ tracking))
                 THEN Continue("push") /\ merge_status' = merge_status
                 ELSE Continue("write_status") /\ merge_status' = UP_TO_DATE
    /\ UNCHANGED <<untouched, runs, raised, previous, config, branch, commit, pr_body, existing_prs, statusFile, git, world>>

\* A forced push: the remote takes whatever it is sent.
PushForced == config.upstream.remote_name \in DOMAIN remotes

\* git push {remote_name} ...: the remote is known and the destination
\* branch fast-forwards to HEAD.
PushAccepted ==
    /\ config.upstream.remote_name \in DOMAIN remotes
    /\ forkTip \subseteq headCommit

\* A merge step that reports a pushed merge as nothing to do.
StatusAfterPushUpToDate == UP_TO_DATE

\* return MergeStatus.MERGED
StatusAfterPush == MERGED

\* git push {remote_name} HEAD:refs/heads/{branch}
\* The push is not forced: the remote accepts it only as a fast-forward.
Push ==
    /\ pc = "push"
    /\ \E f \in FaultChoices :
         /\ CountFault(f)
         /\ Log("push", ~(f \/ ~PushAccepted), f)
         /\ IF f \/ ~PushAccepted
            THEN /\ Raise(UnexpectedExit("push"), "remote_remove")
                 /\ UNCHANGED <<merge_status, forkTip, tracking>>
            ELSE /\ Continue("write_status")
                 /\ merge_status' = StatusAfterPush
                 /\ forkTip' = headCommit
                 /\ tracking' = headCommit
    /\ UNCHANGED <<untouched, runs, raised, previous, config, branch, commit, pr_body, existing_prs, statusFile,
                   curBranch, headCommit, branchTip, dirty, remotes, fetchHead, mergeHead,
                   unmerged, cciTip, prForkTip, prs>>

\* A classification that takes any answer of git ls-files for a conflict.
MergeFailureIgnoringOutput(ok, stdout) ==
    IF ok THEN MergeHadConflicts ELSE UnexpectedExit("merge")

\* if result.ok and result.stdout.strip(): raise MergeHadConflicts
\* raise UnexpectedExit(merge_result)
MergeFailure(ok, stdout) ==
    IF ok /\ stdout # {} THEN MergeHadConflicts ELSE UnexpectedExit("merge")

\* No handler around the merge step.
CatchesNothing(e) == FALSE

\* A handler that catches every exception of the merge step.
CatchesEverything(e) == TRUE

\* merge_upstream: except MergeHadConflicts
Catches(e) == e.type = "MergeHadConflicts"

\* A handler that aborts the merge before it builds the body.
ConflictPlanAbortFirst == <<"merge_abort", "form_pr_body", "pr_fetch">>

\* merge_upstream: the handler's steps: try: _form_pr_body; finally: git merge
\* --abort; then _create_pull_request.
ConflictPlan == <<"form_pr_body", "merge_abort", "pr_fetch">>

\* git ls-files -u   (warn=True), then the raise and its dispatch
LsFiles ==
    /\ pc = "ls_files"
    /\ \E f \in FaultChoices :
         /\ CountFault(f)
         /\ Log("ls_files", ~f, f)
         /\ LET e == MergeFailure(~f, unmerged) IN
            /\ raised' = e
            /\ IF Catches(e)
               THEN Raise(NoErr, ConflictPlan[1])
               ELSE Raise(e, "remote_remove")
    /\ UNCHANGED <<untouched, runs, previous, locals, statusFile, git, world>>

\* _write_status_file(merge_status)
WriteStatusFile ==
    /\ pc = "write_status"
    /\ Log("write_status", TRUE, FALSE)
    /\ statusFile' = merge_status
    /\ Continue("remote_remove")
    /\ UNCHANGED <<untouched, runs, raised, previous, faults, locals, git, world>>

\* ------------------------------------------------------------ _form_pr_body
\* The three read-only commands of _form_pr_body; the two git log --merge
\* commands need MERGE_HEAD.
BodyCommands == <<"diff_conflicts", "log_upstream", "log_local">>

FormBody(files, head, other) ==
    [files |-> files, upstream |-> other \ head, local |-> head \ other]

\* try: pr_body = _form_pr_body(ctx, config)
FormPrBody ==
    /\ pc = "form_pr_body"
    /\ \E k \in 0..Len(BodyCommands) :
         LET failing == IF mergeHead = NoCommit /\ k = 0 THEN 2 ELSE k IN
         /\ k # 0 => faults > 0
         /\ CountFault(k # 0)
         /\ Log("form_pr_body", failing = 0, k # 0)
         /\ IF failing = 0
            THEN /\ pr_body' = FormBody(unmerged, headCommit, mergeHead)
                 /\ Raise(NoErr, StepAfter(ConflictPlan, "form_pr_body", "remote_remove"))
            ELSE /\ pr_body' = pr_body
                 /\ Raise(UnexpectedExit(BodyCommands[failing]),
                          StepAfter(ConflictPlan, "form_pr_body", "remote_remove"))
    /\ UNCHANGED <<untouched, runs, raised, previous, config, branch, commit, merge_status, existing_prs,
                   statusFile, git, world>>

\* A finally clause after which the statements that follow run in any case.
FinallySwallows(e) == FALSE

\* try: ... finally: ...   the exception in flight when the finally clause
\* is entered is raised again when the clause ends.
FinallyReraises(e) == e # NoErr

\* finally: git merge --abort
\* An exception of the finally clause replaces the one in flight; otherwise
\* the one in flight goes on.
MergeAbort ==
    /\ pc = "merge_abort"
    /\ \E f \in FaultChoices :
         /\ CountFault(f)
         /\ Log("merge_abort", ~(f \/ mergeHead = NoCommit), f)
         /\ IF f \/ mergeHead = NoCommit
            THEN /\ Raise(UnexpectedExit("merge_abort"), "remote_remove")
                 /\ UNCHANGED <<mergeHead, unmerged, dirty>>
            ELSE /\ IF FinallyReraises(err)
                    THEN Continue("remote_remove")
                    ELSE Continue(StepAfter(ConflictPlan, "merge_abort", "remote_remove"))
                 /\ mergeHead' = NoCommit
                 /\ unmerged' = {}
                 /\ dirty' = FALSE
    /\ UNCHANGED <<untouched, runs, raised, previous, locals, statusFile, curBranch, headCommit, branchTip,
                   remotes, tracking, fetchHead, world>>

\* ----------------------------------------------------- _create_pull_request
\* git fetch {cci.url} {cci.branch}
PrFetch ==
    /\ pc = "pr_fetch"
    /\ \E f \in FaultChoices :
         /\ CountFault(f)
         /\ Log("pr_fetch", ~f, f)
         /\ IF f
            THEN Raise(UnexpectedExit("pr_fetch"), "remote_remove") /\ fetchHead' = fetchHead
            ELSE Continue("pr_push") /\ fetchHead' = cciTip
    /\ UNCHANGED <<untouched, runs, raised, previous, locals, statusFile, curBranch, headCommit, branchTip, dirty,
                   remotes, tracking, mergeHead, unmerged, world>>

\* git push --force {pull_request.url} FETCH_HEAD:refs/heads/{merge_branch_name}
PrPush ==
    /\ pc = "pr_push"
    /\ \E f \in FaultChoices :
         /\ CountFault(f)
         /\ Log("pr_push", ~f, f)
         /\ IF f
            THEN Raise(UnexpectedExit("pr_push"), "remote_remove") /\ prForkTip' = prForkTip
            ELSE Continue("pr_list") /\ prForkTip' = fetchHead
    /\ UNCHANGED <<untouched, runs, raised, previous, locals, statusFile, git, cciTip, forkTip, prs>>

\* A filter that compares the head branch with the fork owner.
MergePullRequestsWrongField(requests, cfg) ==
    {r \in requests : /\ r.headRefName = cfg.pull_request.fork
                      /\ r.owner = cfg.pull_request.fork}

\* _list_merge_pull_requests: the requests whose head branch and head owner
\* are the configured ones.
MergePullRequests(requests, cfg) ==
    {r \in requests : /\ r.headRefName = cfg.pull_request.merge_branch_name
                      /\ r.owner = cfg.pull_request.fork}

\* The assertion compiled away.
SinglePullRequestUnchecked(found) == TRUE

\* assert len(existing_prs) == 1
SinglePullRequest(found) == Cardinality(found) = 1

\* existing_prs = _list_merge_pull_requests(ctx, config)   (gh pr list)
\* if existing_prs: assert len(existing_prs) == 1 ... else: ...
PrList ==
    /\ pc = "pr_list"
    /\ \E f \in FaultChoices :
         /\ CountFault(f)
         /\ Log("pr_list", ~f, f)
         /\ IF f
            THEN /\ Raise(UnexpectedExit("pr_list"), "remote_remove")
                 /\ existing_prs' = existing_prs
            ELSE LET found == MergePullRequests(prs, config) IN
                 /\ existing_prs' = found
                 /\ IF found = {}
                    THEN Continue("pr_create")
                    ELSE IF SinglePullRequest(found)
                         THEN Continue("pr_edit")
                         ELSE Raise(Err("AssertionError", "-"), "remote_remove")
    /\ UNCHANGED <<untouched, runs, raised, previous, config, branch, commit, merge_status, pr_body,
                   statusFile, git, world>>

\* gh pr edit {url} --body-file ...
PrEdit ==
    /\ pc = "pr_edit"
    /\ \E f \in FaultChoices :
         /\ CountFault(f)
         /\ Log("pr_edit", ~f, f)
         /\ IF f
            THEN /\ Raise(UnexpectedExit("pr_edit"), "remote_remove")
                 /\ UNCHANGED <<prs, merge_status>>
            ELSE LET url == (CHOOSE r \in existing_prs : TRUE).number IN
                 /\ Continue("write_status")
                 /\ prs' = {IF r.number = url THEN [r EXCEPT !.body = pr_body] ELSE r : r \in prs}
                 /\ merge_status' = PULL_REQUEST
    /\ UNCHANGED <<untouched, runs, raised, previous, config, branch, commit, pr_body, existing_prs,
                   statusFile, git, cciTip, forkTip, prForkTip>>

NewNumber(requests) ==
    1 + (CHOOSE n \in {r.number : r \in requests} \cup {0} :
            \A r \in requests : r.number <= n)

\* gh pr create --base {branch} --body-file ... --head {fork}:{merge_branch_name}
PrCreate ==
    /\ pc = "pr_create"
    /\ \E f \in FaultChoices :
         /\ CountFault(f)
         /\ Log("pr_create", ~f, f)
         /\ IF f
            THEN /\ Raise(UnexpectedExit("pr_create"), "remote_remove")
                 /\ UNCHANGED <<prs, merge_status>>
            ELSE /\ Continue("write_status")
                 /\ prs' = prs \cup {[number |-> NewNumber(prs),
                                      headRefName |-> config.pull_request.merge_branch_name,
                                      owner |-> config.pull_request.fork,
                                      body |-> pr_body]}
                 /\ merge_status' = PULL_REQUEST
    /\ UNCHANGED <<untouched, runs, raised, previous, config, branch, commit, pr_body, existing_prs,
                   statusFile, git, cciTip, forkTip, prForkTip>>

\* ------------------------------------------------------------ specification
Next ==
    \/ UpstreamAdvance
    \/ ForkAdvance
    \/ StartRun
    \/ LoadConfig
    \/ CheckPlatform
    \/ CheckClean
    \/ CheckGh
    \/ CheckAuth
    \/ RemoveStatusFile
    \/ SaveBranch
    \/ SaveCommit
    \/ RemoteGetUrl
    \/ RemoteSetUrl
    \/ RemoteAdd
    \/ RemoteUpdate
    \/ CheckoutDetach
    \/ Fetch
    \/ Merge
    \/ CountRevs
    \/ Push
    \/ LsFiles
    \/ FormPrBody
    \/ MergeAbort
    \/ PrFetch
    \/ PrPush
    \/ PrList
    \/ PrEdit
    \/ PrCreate
    \/ WriteStatusFile
    \/ RemoteRemove
    \/ RestoreCheckout
    \/ RestoreReset

Spec == Init /\ [][Next]_vars

\* ------------------------------------------------------------------ claims
\* The guarded scope was entered: both rev-parse commands succeeded.
ScopeEntered == Succeeded("rev_parse_commit")

\* The checkout is where it was when the scope was entered.
Restored ==
    /\ curBranch = branch
    /\ headCommit = commit
    /\ branch # Detached => branchTip = commit

RestorationSucceeded == Succeeded("restore_checkout") /\ Succeeded("restore_reset")

\* A restoration command failed on the tool's own account.
RestorationFaulted ==
    \E i \in 1..Len(trace) :
        trace[i].cmd \in {"restore_checkout", "restore_reset"} /\ trace[i].fault

\* C1: whatever the body did and however it failed, once the guarded scope
\* has exited, normally or by an exception, the checked-out branch and the
\* HEAD commit are those captured at entry, from a named branch and from a
\* detached HEAD alike.  The claim is stated here in its most lenient
\* reading: the runs in which git itself fails while it executes a
\* restoration command are not even counted against it.
C1_RestoredAfterBodyFailures ==
    (pc = "done" /\ ScopeEntered /\ ~RestorationFaulted) => Restored

\* C1, what holds: the restoration is attempted on every exit, and the
\* checkout is restored whenever both restoration commands succeed; from a
\* named branch they succeed unless git itself fails.
C1_RestoredWhenRestorationSucceeds ==
    (pc = "done" /\ ScopeEntered) =>
        /\ Attempted("restore_checkout")
        /\ RestorationSucceeded => Restored
        /\ (branch # Detached /\ ~RestorationFaulted) => Restored

\* C1: the state the code leaves behind when the claim fails: the run began
\* on a detached HEAD, unmerged entries were left in the index, the plain
\* checkout refused, the hard reset never ran.
C1_Unrestored ==
    /\ pc = "done"
    /\ ScopeEntered
    /\ ~RestorationFaulted
    /\ branch = Detached
    /\ unmerged # {}
    /\ ~Attempted("restore_reset")
    /\ headCommit # commit

UnexpectedMergeFailure == raised.type = "UnexpectedExit"
NoStatusWritten == ~Attempted("write_status") /\ statusFile = StatusMissing
NoPullRequestTouched == ~Attempted("pr_create") /\ ~Attempted("pr_edit")

JustClassified == trace # <<>> /\ trace[Len(trace)].cmd = "ls_files"

\* C3 as stated: after a failed merge MergeHadConflicts is raised if and
\* only if the index holds an unmerged path, UnexpectedExit with the merge
\* result is raised otherwise, and a merge that succeeded raises neither.
C3_ConflictIffUnmerged ==
    /\ JustClassified =>
          /\ raised = MergeHadConflicts <=> unmerged # {}
          /\ unmerged = {} => raised = UnexpectedExit("merge")
    /\ Succeeded("merge") => raised = NoErr

\* C3, amended: after a failed merge MergeHadConflicts is raised if and only
\* if git ls-files -u succeeds and lists an unmerged path; when it fails or
\* lists none, UnexpectedExit with the merge result is raised; a merge that
\* succeeded raises neither.
C3_ConflictIffListedUnmerged ==
    /\ JustClassified =>
          LET listed == trace[Len(trace)].ok /\ unmerged # {} IN
          /\ raised = MergeHadConflicts <=> listed
          /\ ~listed => raised = UnexpectedExit("merge")
    /\ Succeeded("merge") => raised = NoErr
    /\ raised # NoErr => Attempted("ls_files") /\ ~Succeeded("merge")

\* C3 witness: the merge stopped on conflicts and MergeHadConflicts was raised.
C3_Witness ==
    /\ JustClassified
    /\ unmerged # {}
    /\ raised = MergeHadConflicts

ConflictPath == raised = MergeHadConflicts
LastEvent == trace[Len(trace)]
PublishCommands == {"pr_fetch", "pr_push", "pr_list", "pr_edit", "pr_create"}
Published == Succeeded("pr_edit") \/ Succeeded("pr_create")

\* The rank of a step in the order C4 states.
C4_Rank(cmd) ==
    CASE cmd = "form_pr_body" -> 1
      [] cmd = "merge_abort" -> 2
      [] cmd \in PublishCommands -> 3
      [] cmd = "write_status" -> 4
      [] cmd = "remote_remove" -> 5
      [] cmd \in {"restore_checkout", "restore_reset"} -> 6
      [] OTHER -> 0

\* C4: once the merge step has raised MergeHadConflicts the run builds the
\* pull-request body while the merge is still in progress, then aborts the
\* merge, then publishes the pull request, then records PULL_REQUEST, and
\* only then releases the guards (remote removal, then restoration); each
\* step starts only after the one before it has finished.
C4_ConflictFallbackOrder ==
    ConflictPath =>
        /\ \A i \in 1..(Len(trace) - 1) :
              C4_Rank(trace[i].cmd) <= C4_Rank(trace[i + 1].cmd)
        /\ LET steps == {i \in 1..Len(trace) : C4_Rank(trace[i].cmd) > 0} IN
           \A i, j \in steps : i < j => trace[i].cmd # trace[j].cmd
        /\ Attempted("form_pr_body") \/ pc = "form_pr_body"
        /\ pc = "merge_abort" => mergeHead # NoCommit
        /\ Succeeded("form_pr_body") => pr_body.files # {}
        /\ (\E c \in PublishCommands : Attempted(c) \/ pc = c) =>
              /\ Succeeded("form_pr_body")
              /\ Succeeded("merge_abort")
              /\ mergeHead = NoCommit
              /\ unmerged = {}
        /\ Attempted("write_status") \/ pc = "write_status" =>
              /\ Published
              /\ merge_status = PULL_REQUEST
        /\ Attempted("write_status") => statusFile = PULL_REQUEST
        /\ Attempted("remote_remove") /\ err = NoErr => Attempted("write_status")
        /\ Attempted("restore_checkout") => Attempted("remote_remove")

\* C4 witness: a conflict run that went through all five steps.
C4_Witness ==
    /\ pc = "done"
    /\ ConflictPath
    /\ err = NoErr
    /\ Succeeded("form_pr_body")
    /\ Succeeded("merge_abort")
    /\ Published
    /\ statusFile = PULL_REQUEST
    /\ Succeeded("remote_remove")
    /\ RestorationSucceeded

\* git rev-list --count has just answered.
JustCounted == trace # <<>> /\ LastEvent.cmd = "count_revs" /\ LastEvent.ok

\* C5: when the merge command succeeded and the checkout is counted zero
\* commits ahead of the remote-tracking destination branch, the merge step
\* returns UP_TO_DATE, that is the outcome written, and no push command is
\* issued in the run.
C5_NoPushWhenUpToDate ==
    /\ (JustCounted /\ Cardinality(headCommit \ tracking) = 0) =>
          /\ Succeeded("merge")
          /\ pc = "write_status"
          /\ merge_status = UP_TO_DATE
    /\ merge_status = UP_TO_DATE => ~Attempted("push")
    /\ (merge_status = UP_TO_DATE /\ Attempted("write_status")) => statusFile = UP_TO_DATE

\* C5 witness: a run that found nothing to merge and recorded UP_TO_DATE.
C5_Witness ==
    /\ pc = "done"
    /\ err = NoErr
    /\ Succeeded("merge")
    /\ Succeeded("count_revs")
    /\ ~Attempted("push")
    /\ statusFile = UP_TO_DATE

C6_Recorded ==
    /\ (JustCounted /\ Cardinality(headCommit \ tracking) > 0) => pc = "push"
    /\ merge_status = MERGED => Succeeded("merge") /\ Succeeded("count_revs") /\ Succeeded("push")
    /\ (Attempted("write_status") /\ merge_status = MERGED) =>
          /\ statusFile = MERGED
          /\ \E i, j \in 1..Len(trace) :
                /\ i < j
                /\ trace[i].cmd = "push" /\ trace[i].ok
                /\ trace[j].cmd = "write_status"

C6_Pushed ==
    (pc = "push" /\ pc' = "write_status") =>
        /\ forkTip' = headCommit
        /\ forkTip' = tracking \cup fetchHead \cup {<<"M", runs>>}
        /\ <<"M", runs>> \notin tracking \cup fetchHead
        /\ tracking # NoCommit /\ fetchHead # NoCommit

\* C6: when the merge succeeded and the checkout is counted at least one
\* commit ahead, the run pushes; MERGED is recorded only after that push
\* succeeded; and the push leaves the private fork's destination branch on a
\* merge commit whose ancestors are the destination tip seen at
\* synchronization and the fetched upstream tip.
C6_MergedAfterPush == []C6_Recorded /\ [][C6_Pushed]_vars

\* C6 witness: a run that merged, pushed the merge commit and recorded MERGED.
C6_Witness ==
    /\ pc = "done"
    /\ err = NoErr
    /\ statusFile = MERGED
    /\ Succeeded("push")
    /\ <<"M", runs>> \in forkTip
    /\ <<"U", 1>> \in forkTip

\* The open pull requests whose head is the configured branch of the
\* configured fork.
C7_Matching ==
    {r \in prs : /\ r.headRefName = config.pull_request.merge_branch_name
                 /\ r.owner = config.pull_request.fork}

RecordedPullRequest == Attempted("write_status") /\ merge_status = PULL_REQUEST

\* C7: when two invocations in a row both take the conflict fallback to its
\* end, exactly one open pull request has the configured head branch and
\* head owner afterwards and its body is the body the second invocation
\* computed; the second invocation edits and creates nothing; an invocation
\* creates a pull request only when it found none that matches.
C7_IdempotentPullRequest ==
    /\ (pc = "done" /\ previous.status = PULL_REQUEST /\ RecordedPullRequest) =>
          /\ Cardinality(C7_Matching) = 1
          /\ \A r \in C7_Matching : r.body = pr_body
          /\ Succeeded("pr_edit")
          /\ ~Attempted("pr_create")
          /\ previous.pr \in {"created", "edited"}
    /\ Succeeded("pr_create") => existing_prs = {}
    /\ Succeeded("pr_edit") => Cardinality(existing_prs) = 1

\* C7 witness: the first invocation created the pull request, the second one
\* edited it, and it is the only matching one.
C7_Witness ==
    /\ pc = "done"
    /\ err = NoErr
    /\ previous = [status |-> PULL_REQUEST, pr |-> "created"]
    /\ RecordedPullRequest
    /\ Succeeded("pr_edit")
    /\ Cardinality(C7_Matching) = 1
    /\ \A r \in C7_Matching : r.body = pr_body /\ r.body # StaleBody

TooManyPullRequests == Cardinality(existing_prs) > 1
AssertionError == Err("AssertionError", "-")

\* C8 as stated: when more than one pull request matches, none is created
\* or edited, the run aborts with an assertion failure, no outcome is
\* recorded, and the guards restore the original checkout.
C8_AssertionAndRestored ==
    TooManyPullRequests =>
        /\ NoPullRequestTouched
        /\ NoStatusWritten
        /\ pc = "done" => err = AssertionError /\ Restored

\* C8, amended: when more than one pull request matches, none is created or
\* edited and no outcome is recorded; the run fails after the restoration
\* was attempted; when both restoration commands succeed the checkout is
\* restored and the failure is the assertion failure, and otherwise the
\* failure is that of the restoration command that failed.
C8_AssertionOnManyMatches ==
    TooManyPullRequests =>
        /\ NoPullRequestTouched
        /\ NoStatusWritten
        /\ pc \in {"remote_remove", "restore_checkout", "restore_reset", "done"}
        /\ pc # "done" => err = AssertionError
        /\ pc = "done" =>
              /\ Attempted("restore_checkout")
              /\ IF RestorationSucceeded
                 THEN err = AssertionError /\ Restored
                 ELSE err \in {UnexpectedExit("restore_checkout"), UnexpectedExit("restore_reset")}

\* C8 witness: two pull requests matched, the assertion failed, the checkout
\* was restored.
C8_Witness ==
    /\ pc = "done"
    /\ TooManyPullRequests
    /\ err = AssertionError
    /\ Succeeded("pr_push")
    /\ RestorationSucceeded
    /\ Restored

\* C9: MergeHadConflicts is never the exception in flight outside the merge
\* step and never the one an invocation ends with: every raise of it enters
\* the pull-request fallback.
C9_ConflictsNeverSurface ==
    /\ err.type # "MergeHadConflicts"
    /\ ConflictPath => pc = "form_pr_body" \/ Attempted("form_pr_body")

\* C9 witness: an invocation in which MergeHadConflicts was raised has ended.
C9_Witness ==
    /\ pc = "done"
    /\ ConflictPath
    /\ Attempted("form_pr_body")
    /\ Attempted("merge_abort")

C10_Order == <<"check_platform", "check_clean", "check_gh", "check_auth">>
C10_IsCheck(e) == e.cmd \in {C10_Order[k] : k \in 1..Len(C10_Order)}
C10_Checks == SelectSeq(trace, C10_IsCheck)

\* C10: the precondition checks are evaluated in the order platform, clean
\* working tree, review CLI installed, review CLI authenticated; when one
\* fails the run ends there with the error of that check and no later check
\* is evaluated; the step after the checks runs only when all four passed.
C10_PreconditionOrder ==
    LET checks == C10_Checks IN
    /\ Len(checks) <= Len(C10_Order)
    /\ \A k \in 1..Len(checks) :
          /\ checks[k].cmd = C10_Order[k]
          /\ ~checks[k].ok =>
                /\ k = Len(checks)
                /\ LastEvent = checks[k]
                /\ pc = "done"
                /\ err = Err("Exit", C10_Order[k])
    /\ Attempted("remove_status") =>
          /\ Len(checks) = Len(C10_Order)
          /\ \A k \in 1..Len(checks) : checks[k].ok

\* C10 witness: the third check failed after the first two passed.
C10_Witness ==
    /\ pc = "done"
    /\ Len(C10_Checks) = 3
    /\ C10_Checks[1].ok /\ C10_Checks[2].ok /\ ~C10_Checks[3].ok
    /\ err = Err("Exit", "check_gh")

\* The positions of configuration loading and of the precondition checks.
BeforeWorkflow == {"load_config", "check_platform", "check_clean", "check_gh", "check_auth"}
PreconditionFailed == err.type = "Exit"

C11_NothingIssued ==
    PreconditionFailed =>
        /\ pc = "done"
        /\ \A i \in 1..Len(trace) : trace[i].cmd \in BeforeWorkflow
        /\ ~LastEvent.ok

C11_NothingChanged ==
    pc \in BeforeWorkflow => UNCHANGED <<statusFile, git, world>>

\* C11: when a precondition fails the run ends with that check's error and
\* the workflow never starts: the only steps of the run are the loading of
\* the configuration and the checks up to the failing one, and none of them
\* changes the repository, its remotes, the remote repositories or the pull
\* requests.
C11_NoMutationOnFailedPrecondition == []C11_NothingIssued /\ [][C11_NothingChanged]_vars

\* C11 witness: the last check failed in a repository that has a remote of
\* the temporary name, and the remote is still there.
C11_Witness ==
    /\ pc = "done"
    /\ err = Err("Exit", "check_auth")
    /\ Len(trace) = 5
    /\ UpstreamConfig.remote_name \in DOMAIN remotes
    /\ runs = 2

\* The positions inside _merge_and_push.
MergeStep == {"checkout_detach", "fetch", "merge", "count_revs", "push", "ls_files"}

\* C12: whenever the merge step runs, a remote of the configured temporary
\* name exists, its URL is the configured URL of the private fork, and it
\* has been updated in this run, whether or not a remote of that name
\* existed before the run and whatever its URL was.
C12_RemoteReadyForMerge ==
    pc \in MergeStep =>
        /\ config.upstream.remote_name \in DOMAIN remotes
        /\ remotes[config.upstream.remote_name] = UpstreamUrl(config)
        /\ Succeeded("remote_update")
        /\ Succeeded("remote_set_url") \/ Succeeded("remote_add")
        /\ tracking # NoCommit

\* C12 witness: a remote of that name existed with another URL, it was
\* re-pointed and updated, and the merge is about to run.
C12_Witness ==
    /\ pc = "merge"
    /\ runs = 1
    /\ Succeeded("remote_set_url")
    /\ remotes[config.upstream.remote_name] = UpstreamUrl(config)
    /\ remotes[config.upstream.remote_name] # StaleUrl
    /\ tracking = forkTip

\* The _merge_remote scope has been left.
RemoteScopeLeft == ScopeEntered /\ pc \in {"restore_checkout", "restore_reset", "done"}

C13_RemovedOnce ==
    /\ RemoteScopeLeft => Cardinality({i \in 1..Len(trace) : trace[i].cmd = "remote_remove"}) = 1
    /\ Attempted("remote_remove") => ScopeEntered

C13_RemovalNotFatal ==
    pc = "remote_remove" => err' = err /\ pc' = "restore_checkout"

\* C13: on every path out of the _merge_remote scope (normal return,
\* conflict fallback, any failure) the removal of the temporary remote is
\* attempted exactly once, and whether it succeeds or fails it leaves the
\* exception in flight as it was: no error where there was none, the same
\* error where there was one.
C13_RemoteRemovedOnceNotFatal == []C13_RemovedOnce /\ [][C13_RemovalNotFatal]_vars

\* C13 witness: the removal of the remote failed in a run that merged and
\* pushed, and the run ended without an error.
C13_Witness ==
    /\ pc = "done"
    /\ err = NoErr
    /\ statusFile = MERGED
    /\ Attempted("remote_remove")
    /\ ~Succeeded("remote_remove")
    /\ config.upstream.remote_name \in DOMAIN remotes

CompletedNormally == pc = "done" /\ err = NoErr

\* C14: a run that completes normally writes the status marker exactly
\* once, with one of UP_TO_DATE, MERGED, PULL_REQUEST; the name written is
\* the one of the path taken (merge succeeded and nothing to push / merge
\* succeeded and pushed / conflicts and a pull request published); and at
\* the end of the run the marker holds that name.
C14_OneOutcomeOnce ==
    CompletedNormally =>
        /\ Cardinality({i \in 1..Len(trace) : trace[i].cmd = "write_status"}) = 1
        /\ statusFile \in MergeStatus
        /\ statusFile = merge_status
        /\ statusFile = UP_TO_DATE <=>
              Succeeded("merge") /\ Succeeded("count_revs") /\ ~Attempted("push")
        /\ statusFile = MERGED <=> Succeeded("merge") /\ Succeeded("push")
        /\ statusFile = PULL_REQUEST <=> ConflictPath /\ Published

\* C14 witness: a run that pushed a merge has completed normally although
\* the marker of an earlier run said PULL_REQUEST.
C14_Witness ==
    /\ CompletedNormally
    /\ previous.status = PULL_REQUEST
    /\ Succeeded("push")
    /\ statusFile = MERGED

\* The run has ended with an error raised after the marker was removed.
FailedAfterRemoval == pc = "done" /\ Attempted("remove_status") /\ err # NoErr

\* C15: when anything fails after the status marker was removed (remote
\* setup, merge, push, body building, merge abort, pull-request publishing
\* or guard release), the status marker is missing when the run ends.
C15_MarkerMissingAfterFailure ==
    FailedAfterRemoval => statusFile = StatusMissing

\* C15, what holds: the marker is missing after every failure except that
\* of a restoration command in a run that had already written its outcome.
C15_MarkerMissingUnlessReleaseFailed ==
    (FailedAfterRemoval /\ statusFile # StatusMissing) =>
        /\ Attempted("write_status")
        /\ statusFile = merge_status
        /\ err \in {UnexpectedExit("restore_checkout"), UnexpectedExit("restore_reset")}

\* C15: a run that failed in its guard release and left a marker.
C15_MarkerLeft ==
    /\ FailedAfterRemoval
    /\ err = UnexpectedExit("restore_checkout")
    /\ statusFile = MERGED

AbortedAbnormally == pc = "done" /\ err # NoErr

\* C16 as stated: the marker is removed at the start of each run, so a
\* marker present at the end of a run that aborted abnormally, a failure of
\* configuration loading or of a precondition included, was written by that
\* run and is never the one an earlier run left.
C16_NoStaleMarkerAfterAbort ==
    (AbortedAbnormally /\ statusFile # StatusMissing) => Attempted("write_status")

C16_OwnMarker ==
    /\ (Attempted("remove_status") /\ statusFile # StatusMissing) =>
          Attempted("write_status") /\ statusFile = merge_status
    /\ (trace # <<>> /\ LastEvent.cmd \notin BeforeWorkflow) => Attempted("remove_status")
    /\ (AbortedAbnormally /\ ~Attempted("remove_status")) =>
          err.type \in {"ConfigurationError", "Exit"}

C16_RemovedAfterChecks ==
    /\ pc \in BeforeWorkflow => UNCHANGED <<statusFile, git, world>>
    /\ pc = "remove_status" => statusFile' = StatusMissing /\ UNCHANGED <<git, world>>

\* C16, amended: the marker is removed in every run that loads its
\* configuration and passes the preconditions, before any mutation, so a
\* marker present at the end of such a run, however it ended, was written by
\* that run; a run that fails configuration loading or a precondition ends
\* before the removal and leaves the marker as it found it.
C16_MarkerRemovedAfterPreconditions == []C16_OwnMarker /\ [][C16_RemovedAfterChecks]_vars

\* C16 witness: an earlier run left a marker and the next run, which
\* passed the preconditions and then failed, ended without a marker.
C16_Witness ==
    /\ AbortedAbnormally
    /\ runs = 2
    /\ previous.status \in MergeStatus
    /\ Attempted("remove_status")
    /\ statusFile = StatusMissing

ConfigurationFailed == err.type = "ConfigurationError"

C18_EndsAtLoad ==
    ConfigurationFailed =>
        /\ pc = "done"
        /\ Len(trace) = 1
        /\ trace[1].cmd = "load_config" /\ ~trace[1].ok
        /\ \A check \in BeforeWorkflow \ {"load_config"} : ~Attempted(check)
        /\ ~Attempted("remove_status")

C18_LoadChangesNothing ==
    pc = "load_config" => UNCHANGED <<statusFile, git, world>>

\* C18: when configuration loading fails the run ends there: no
\* precondition check is evaluated, the status marker is not removed, and
\* no git or review-CLI command is run, so nothing is changed.
C18_ConfigurationErrorFatalAtLoad == []C18_EndsAtLoad /\ [][C18_LoadChangesNothing]_vars

\* C18 witness: a run found an unknown key in dlproject.yaml and ended with
\* the marker of an earlier run and a dirty work tree as they were.
C18_Witness ==
    /\ pc = "done"
    /\ ConfigurationFailed
    /\ statusFile = MERGED
    /\ dirty
    /\ Len(trace) = 1

\* ------------------------------------------- two invocations, one checkout
\* Two invocations of merge_upstream have been started in the same working
\* tree, on branch work at WorkCommit; no tool fails on its own account.
InitTwo ==
    /\ pc = "load_config"
    /\ err = NoErr
    /\ runs = 2
    /\ faults = 0
    /\ trace = <<>>
    /\ raised = NoErr
    /\ previous = NoRun
    /\ config = MergeUpstreamConfig
    /\ branch = Detached
    /\ commit = NoCommit
    /\ merge_status = "none"
    /\ pr_body = NoBody
    /\ existing_prs = {}
    /\ statusFile = StatusMissing
    /\ curBranch = WorkBranch
    /\ headCommit = WorkCommit
    /\ branchTip = WorkCommit
    /\ dirty = FALSE
    /\ remotes = [n \in {"origin"} |-> OriginUrl]
    /\ tracking = NoCommit
    /\ fetchHead = NoCommit
    /\ mergeHead = NoCommit
    /\ unmerged = {}
    /\ cciTip = BaseCommit
    /\ forkTip = BaseCommit
    /\ prForkTip = NoCommit
    /\ prs = {OtherPR}
    /\ dlproject = EmptyDoc
    /\ parked = Invocation(2)
    /\ NoUpload

InProgress(position) == position \notin {"load_config", "done"}

\* The scheduler lets the other invocation take the next steps: the two
\* exchange their own state; the working tree, the remotes and the files
\* are shared.  It is noted whether an invocation was ever suspended between
\* its first step and its end.
Switch ==
    /\ parked.pc # "done"
    /\ pc' = parked.pc
    /\ err' = parked.err
    /\ trace' = parked.trace
    /\ raised' = parked.raised
    /\ config' = parked.config
    /\ branch' = parked.branch
    /\ commit' = parked.commit
    /\ merge_status' = parked.merge_status
    /\ pr_body' = parked.pr_body
    /\ existing_prs' = parked.existing_prs
    /\ parked' = [id |-> 3 - parked.id, pc |-> pc, err |-> err, trace |-> trace,
                  raised |-> raised, config |-> config, branch |-> branch,
                  commit |-> commit, merge_status |-> merge_status, pr_body |-> pr_body,
                  existing_prs |-> existing_prs,
                  suspended |-> parked.suspended \/ InProgress(pc)]
    /\ UNCHANGED <<runs, faults, previous, statusFile, git, world, dlproject, uploading>>

NextTwo ==
    \/ Switch
    \/ UpstreamAdvance
    \/ LoadConfig
    \/ CheckPlatform
    \/ CheckClean
    \/ CheckGh
    \/ CheckAuth
    \/ RemoveStatusFile
    \/ SaveBranch
    \/ SaveCommit
    \/ RemoteGetUrl
    \/ RemoteSetUrl
    \/ RemoteAdd
    \/ RemoteUpdate
    \/ CheckoutDetach
    \/ Fetch
    \/ Merge
    \/ CountRevs
    \/ Push
    \/ LsFiles
    \/ FormPrBody
    \/ MergeAbort
    \/ PrFetch
    \/ PrPush
    \/ PrList
    \/ PrEdit
    \/ PrCreate
    \/ WriteStatusFile
    \/ RemoteRemove
    \/ RestoreCheckout
    \/ RestoreReset

SpecTwo == InitTwo /\ [][NextTwo]_vars

BothFinished == pc = "done" /\ parked.pc = "done" /\ parked.id # 0
OriginalCheckout ==
    /\ curBranch = WorkBranch
    /\ headCommit = WorkCommit
    /\ branchTip = WorkCommit

\* C19: the restoration guarantee needs exclusive access to the working
\* tree.  When neither invocation is suspended midway in favour of the
\* other, both end with the checkout on the branch and commit it had before
\* the first started; when they interleave that is lost (the witness): the
\* second captures the detached checkout of the first and restores that.
C19_RestoredWithExclusiveAccess ==
    (BothFinished /\ ~parked.suspended) => OriginalCheckout

\* C19 witness: both invocations have finished without an error and the
\* checkout is not on the branch it was on before the first started.
C19_Witness ==
    /\ BothFinished
    /\ parked.suspended
    /\ err = NoErr
    /\ parked.err = NoErr
    /\ curBranch = Detached
    /\ headCommit # WorkCommit
    /\ ~OriginalCheckout

\* C19: an invocation is in its merge step while the other has removed the
\* remote it works against.
C19_MergeAgainstWrongState ==
    /\ pc \in MergeStep
    /\ parked.suspended
    /\ config.upstream.remote_name \notin DOMAIN remotes
    /\ tracking = NoCommit

\* --------------------------------------------------- configuration loading
\* The override documents: any of the three sections and an unknown one,
\* each empty or giving one key, which is a field of some sections and of
\* no other.
ConfigSections == {"cci", "upstream", "pull_request", "bogus"}
ConfigKeys == {"branch", "fork", "bogus"}
ConfigOverrides == {EmptyDoc} \cup {[f \in {k} |-> "x"] : k \in ConfigKeys}
ConfigDocs == UNION {[S -> ConfigOverrides] : S \in SUBSET ConfigSections}

\* merge_upstream reaches its first statement with some dlproject.yaml.
InitConfig ==
    /\ pc = "load_config"
    /\ err = NoErr
    /\ runs = 1
    /\ faults = 0
    /\ trace = <<>>
    /\ raised = NoErr
    /\ previous = NoRun
    /\ config = MergeUpstreamConfig
    /\ branch = Detached
    /\ commit = NoCommit
    /\ merge_status = "none"
    /\ pr_body = NoBody
    /\ existing_prs = {}
    /\ statusFile = StatusMissing
    /\ curBranch = WorkBranch
    /\ headCommit = WorkCommit
    /\ branchTip = WorkCommit
    /\ dirty = FALSE
    /\ remotes = [n \in {"origin"} |-> OriginUrl]
    /\ tracking = NoCommit
    /\ fetchHead = NoCommit
    /\ mergeHead = NoCommit
    /\ unmerged = {}
    /\ cciTip = BaseCommit
    /\ forkTip = BaseCommit
    /\ prForkTip = NoCommit
    /\ prs = {OtherPR}
    /\ dlproject \in ConfigDocs
    /\ parked = NoInvocation
    /\ NoUpload

NextConfig == LoadConfig

SpecConfig == InitConfig /\ [][NextConfig]_vars

\* The keys the data classes declare, as the claim names them.
RecognizedSections == {"cci", "upstream", "pull_request"}
RecognizedKeys(section) ==
    CASE section = "cci" -> {"url", "branch"}
      [] section = "upstream" -> {"host", "organization", "branch", "remote_name"}
      [] section = "pull_request" ->
            {"host", "fork", "merge_branch_name", "reviewers", "assignee", "labels"}

HasUnrecognizedKey(doc) ==
    \E section \in DOMAIN doc :
        \/ section \notin RecognizedSections
        \/ \E k \in DOMAIN doc[section] : k \notin RecognizedKeys(section)

ConfigLoaded == Attempted("load_config")

\* C17: loading an override document that has an unrecognized key, at the
\* top level or inside cci, upstream or pull_request, fails with
\* ConfigurationError; loading an empty override document gives the
\* configuration in which every field has its default value.
C17_StrictConfiguration ==
    ConfigLoaded =>
        /\ HasUnrecognizedKey(dlproject) =>
              /\ err = Err("ConfigurationError", "-")
              /\ pc = "done"
              /\ config = MergeUpstreamConfig
        /\ dlproject = EmptyDoc =>
              /\ err = NoErr
              /\ config = MergeUpstreamConfig
              /\ config.cci = ConanCenterIndexConfig
              /\ config.upstream = UpstreamConfig
              /\ config.pull_request = PullRequestConfig
        /\ err = NoErr =>
              \A section \in DOMAIN dlproject : \A k \in DOMAIN dlproject[section] :
                  config[section][k] = dlproject[section][k]

\* C17 witness: a document whose sections are all known and whose upstream
\* section has an unknown key was refused.
C17_Witness ==
    /\ ConfigLoaded
    /\ DOMAIN dlproject = {"upstream", "pull_request"}
    /\ DOMAIN dlproject["upstream"] = {"fork"}
    /\ DOMAIN dlproject["pull_request"] = {"fork"}
    /\ err = Err("ConfigurationError", "-")

\* -------------------------------------------------------- upload_in_parallel
\* What upload_in_parallel does not touch.
merging == <<ctl, locals, statusFile, git, world, dlproject, parked>>

\* upload_in_parallel is called with one package or more, in sorted order;
\* merge_upstream is not running.
InitUpload ==
    /\ pc = "idle"
    /\ err = NoErr
    /\ runs = 0
    /\ faults = 0
    /\ trace = <<>>
    /\ raised = NoErr
    /\ previous = NoRun
    /\ config = MergeUpstreamConfig
    /\ branch = Detached
    /\ commit = NoCommit
    /\ merge_status = "none"
    /\ pr_body = NoBody
    /\ existing_prs = {}
    /\ statusFile = StatusMissing
    /\ curBranch = WorkBranch
    /\ headCommit = WorkCommit
    /\ branchTip = WorkCommit
    /\ dirty = FALSE
    /\ remotes = [n \in {"origin"} |-> OriginUrl]
    /\ tracking = NoCommit
    /\ fetchHead = NoCommit
    /\ mergeHead = NoCommit
    /\ unmerged = {}
    /\ cciTip = BaseCommit
    /\ forkTip = BaseCommit
    /\ prForkTip = NoCommit
    /\ prs = {OtherPR}
    /\ dlproject = EmptyDoc
    /\ parked = NoInvocation
    /\ uploads \in {[p \in 1..n |-> "unsubmitted"] : n \in 1..MaxPackages}
    /\ work_queue = <<>>
    /\ upload_pc = "submit"
    /\ yielded = {}
    /\ future = 0
    /\ unstarted = {}

InState(states) == {p \in DOMAIN uploads : uploads[p] \in states}

\* future_to_package = {executor.submit(do_upload, one_package): ...}, one
\* package after the other in sorted order, then the loop over as_completed.
Submit ==
    /\ upload_pc = "submit"
    /\ IF InState({"unsubmitted"}) = {}
       THEN /\ upload_pc' = "as_completed"
            /\ UNCHANGED <<uploads, work_queue>>
       ELSE LET p == CHOOSE q \in InState({"unsubmitted"}) :
                        \A r \in InState({"unsubmitted"}) : q <= r IN
            /\ uploads' = [uploads EXCEPT ![p] = "pending"]
            /\ work_queue' = Append(work_queue, p)
            /\ UNCHANGED upload_pc
    /\ UNCHANGED <<merging, yielded, future, unstarted>>

\* A worker thread that is free takes the next work item and runs do_upload.
StartUpload ==
    /\ work_queue # <<>>
    /\ Cardinality(InState({"running"})) < MaxWorkers
    /\ uploads' = [uploads EXCEPT ![Head(work_queue)] = "running"]
    /\ work_queue' = Tail(work_queue)
    /\ UNCHANGED <<merging, upload_pc, yielded, future, unstarted>>

\* do_upload returns.
FinishUpload ==
    /\ \E p \in InState({"running"}) : uploads' = [uploads EXCEPT ![p] = "finished"]
    /\ UNCHANGED <<merging, work_queue, upload_pc, yielded, future, unstarted>>

\* do_upload raises.  At the first failure the uploads that have not
\* started are noted.
FailUpload ==
    /\ \E p \in InState({"running"}) : uploads' = [uploads EXCEPT ![p] = "failed"]
    /\ unstarted' = IF InState({"failed"}) = {}
                    THEN InState({"unsubmitted", "pending"})
                    ELSE unstarted
    /\ UNCHANGED <<merging, work_queue, upload_pc, yielded, future>>

\* for future in futures.as_completed(future_to_package):
\*     exception = future.exception(); if exception: ...
AsCompleted ==
    /\ upload_pc = "as_completed"
    /\ \E p \in InState({"finished", "failed"}) \ yielded :
         /\ yielded' = yielded \cup {p}
         /\ future' = p
         /\ upload_pc' = IF uploads[p] = "failed" THEN "shutdown" ELSE "as_completed"
    /\ UNCHANGED <<merging, uploads, work_queue, unstarted>>

\* as_completed is exhausted: the with statement ends and the call returns.
ReturnUpload ==
    /\ upload_pc = "as_completed"
    /\ yielded = DOMAIN uploads
    /\ upload_pc' = "returned"
    /\ UNCHANGED <<merging, uploads, work_queue, yielded, future, unstarted>>

\* A shutdown that leaves the queue to the workers.
CancelFuturesOff == FALSE

\* executor.shutdown(wait=True, cancel_futures=True)
CancelFutures == TRUE

\* shutdown takes the work items off the queue one by one and cancels their
\* futures; the workers may take items meanwhile.
ShutdownCancel ==
    /\ upload_pc = "shutdown"
    /\ IF CancelFutures /\ work_queue # <<>>
       THEN /\ uploads' = [uploads EXCEPT ![Head(work_queue)] = "cancelled"]
            /\ work_queue' = Tail(work_queue)
            /\ UNCHANGED upload_pc
       ELSE /\ upload_pc' = "wait"
            /\ UNCHANGED <<uploads, work_queue>>
    /\ UNCHANGED <<merging, yielded, future, unstarted>>

\* shutdown(wait=True) joins the workers, which end when the queue is
\* empty; then raise Exit(f'error exporting/uploading {one_package}: ...').
RaiseExit ==
    /\ upload_pc = "wait"
    /\ work_queue = <<>>
    /\ InState({"running"}) = {}
    /\ upload_pc' = "raised"
    /\ UNCHANGED <<merging, uploads, work_queue, yielded, future, unstarted>>

NextUpload ==
    \/ Submit
    \/ StartUpload
    \/ FinishUpload
    \/ FailUpload
    \/ AsCompleted
    \/ ReturnUpload
    \/ ShutdownCancel
    \/ RaiseExit

SpecUpload == InitUpload /\ [][NextUpload]_vars

ExitRaised == upload_pc = "raised"

C20_AtExit ==
    /\ ExitRaised =>
          /\ uploads[future] = "failed"
          /\ InState({"running", "pending", "unsubmitted"}) = {}
          /\ work_queue = <<>>
    /\ upload_pc = "returned" => InState({"finished"}) = DOMAIN uploads

\* C20 as stated: every upload that had not started at the moment of the
\* first failure is cancelled and never runs; Exit names a failed package
\* and is raised only when no upload is running.
C20_UnstartedAtFailureNeverRun ==
    /\ unstarted \subseteq InState({"unsubmitted", "pending", "cancelled"})
    /\ ExitRaised => unstarted \subseteq InState({"cancelled"})
    /\ C20_AtExit

C20_Step ==
    /\ \A p \in DOMAIN uploads : uploads[p] = "cancelled" => uploads'[p] = "cancelled"
    /\ upload_pc \in {"wait", "raised", "returned"} =>
          /\ InState({"running"})' \subseteq InState({"running"})
          /\ InState({"cancelled"})' = InState({"cancelled"})
    /\ ExitRaised => UNCHANGED uploading

\* C20, amended: when an upload raises and the calling thread sees it, the
\* executor is shut down: every upload still in the queue when the shutdown
\* comes to it is cancelled and never runs, and once the queue is empty no
\* upload starts; an upload that a worker takes from the queue before that,
\* be it after the first failure, does run.  Exit naming a failed package is
\* raised only after every running upload has ended: when it is raised each
\* upload has finished, failed or been cancelled, and nothing runs or starts
\* afterwards.
C20_FailsOnFirstProblemSeen == []C20_AtExit /\ [][C20_Step]_vars

\* C20 witness: Exit was raised for a failed package after one upload was
\* cancelled and another one, running when the failure was seen, finished.
C20_Witness ==
    /\ ExitRaised
    /\ uploads[future] = "failed"
    /\ InState({"cancelled"}) # {}
    /\ InState({"finished"}) \ yielded # {}

\* C20: an upload that had not started when the first one failed has run.
C20_StartedAfterFailure ==
    /\ ExitRaised
    /\ unstarted \cap InState({"finished", "failed"}) # {}

\* ------------------------------------------ the private fork's destination
\* The run has issued git push {remote_name} HEAD:refs/heads/{branch}.
PushIssuedAt == {i \in 1..Len(trace) : trace[i].cmd = "push"}

C21_PushOnlyOnMergedPath ==
    /\ Cardinality(PushIssuedAt) <= 1
    /\ \A p \in PushIssuedAt :
          /\ raised = NoErr
          /\ Succeeded("merge") /\ Succeeded("count_revs")
          /\ \A i \in 1..(p - 1) : trace[i].ok \/ trace[i].cmd = "remote_get_url"
          /\ ~trace[p].ok => err # NoErr /\ ~Attempted("write_status")
          /\ Attempted("write_status") => trace[p].ok /\ statusFile = MERGED
    /\ (Attempted("write_status") /\ merge_status # MERGED) => PushIssuedAt = {}
    /\ (ConflictPath \/ UnexpectedMergeFailure) => PushIssuedAt = {}

C21_PushKeepsCommits ==
    /\ (forkTip' # forkTip /\ trace' # trace) =>
          /\ pc = "push" /\ pc' = "write_status"
          /\ merge_status' = MERGED
          /\ forkTip \subseteq forkTip'
          /\ tracking \subseteq forkTip'
          /\ tracking # NoCommit
    /\ (pc = "push" /\ trace' # trace /\ forkTip # tracking) =>
          /\ forkTip' = forkTip
          /\ err' = UnexpectedExit("push")
          /\ pc' = "remote_remove"

\* C21: a run changes the private fork's destination branch only by the
\* push of the MERGED path.  The push is issued at most once, only after a
\* merge that succeeded and a count that was not zero, with no failure
\* before it: never on the up-to-date path, on the conflict path or after a
\* failure.  A push that succeeds leaves the branch on a commit that
\* descends from the tip seen at synchronization and from the tip the branch
\* had, so no commit is removed from it, and MERGED is what the run records.
\* When the branch has moved since synchronization the push is refused, the
\* branch keeps its tip and the run fails with nothing recorded.
C21_ForkChangedOnlyByMergedPush == []C21_PushOnlyOnMergedPath /\ [][C21_PushKeepsCommits]_vars

\* C21 witness: somebody pushed to the destination branch before the
\* synchronization of the run; the run merged and pushed, and the branch
\* holds the merge commit and still holds that commit.
C21_Witness ==
    /\ pc = "done"
    /\ err = NoErr
    /\ Succeeded("push")
    /\ statusFile = MERGED
    /\ <<"L", 1>> \in forkTip
    /\ <<"M", runs>> \in forkTip

\* C21: somebody pushed to the destination branch after the synchronization:
\* the push of the run was refused, the branch kept that commit and the run
\* failed with nothing recorded.
C21_Refused ==
    /\ pc = "done"
    /\ PushIssuedAt # {}
    /\ ~Succeeded("push")
    /\ \A i \in 1..Len(trace) : ~trace[i].fault
    /\ <<"L", 1>> \in forkTip
    /\ err = UnexpectedExit("push")
    /\ statusFile = StatusMissing

\* ------------------------------------------------- the remotes as a frame
\* A remote of the temporary name existed when _merge_remote was entered.
\* Until the removal no command of the run deletes a remote and only a
\* succeeding git remote add creates one; a removal succeeds only on a
\* remote that exists.
RemoteExistedAtEntry ==
    /\ ~Succeeded("remote_add")
    /\ config.upstream.remote_name \in DOMAIN remotes \/ Succeeded("remote_remove")

\* C22 as stated: after a run in which the removal of the remote succeeded
\* the repository has the remotes it had before the run: a remote of the
\* temporary name is there exactly if one was there before.
C22_RemotesAsBefore ==
    (pc = "done" /\ Succeeded("remote_remove")) =>
        (config.upstream.remote_name \in DOMAIN remotes <=> RemoteExistedAtEntry)

C22_TemporaryRemoved ==
    (Succeeded("remote_remove") /\ pc \in {"restore_checkout", "restore_reset", "done"}) =>
        /\ config.upstream.remote_name \notin DOMAIN remotes
        /\ tracking = NoCommit

C22_OthersUntouched ==
    /\ \A n \in (DOMAIN remotes \cup DOMAIN remotes') \ {config.upstream.remote_name} :
          /\ n \in DOMAIN remotes /\ n \in DOMAIN remotes'
          /\ remotes'[n] = remotes[n]
    /\ remotes' # remotes => pc \in {"remote_set_url", "remote_add", "remote_remove"}
    /\ (config.upstream.remote_name \in DOMAIN remotes
        /\ config.upstream.remote_name \notin DOMAIN remotes') => pc = "remote_remove"

\* C22, amended: no step of a run adds, removes or re-points a remote other
\* than the one of the configured temporary name, and that one is removed
\* only by the removal that ends _merge_remote; after a run in which that
\* removal succeeded the repository has no remote of the temporary name,
\* whether or not it had one before the run.
C22_OnlyTemporaryRemoteChanged == []C22_TemporaryRemoved /\ [][C22_OthersUntouched]_vars

\* C22 witness: the repository had a remote of the temporary name, pointing
\* elsewhere; the run re-pointed it, removed it, and ended without it.
C22_Witness ==
    /\ pc = "done"
    /\ runs = 1
    /\ Succeeded("remote_set_url")
    /\ Succeeded("remote_remove")
    /\ remotes = [n \in {"origin"} |-> OriginUrl]

\* --------------------------------------- conan-io ahead of the private fork
\* The task is first invoked when conan-io's branch already holds a commit
\* the private fork's branch lacks; more commits may land on it meanwhile.
AheadCommit == BaseCommit \cup {<<"C", 0>>}
InitAhead == InitAt(AheadCommit, 0, MaxFaults)

SpecAhead == InitAhead /\ [][Next]_vars

\* The pull-request branch was pushed on the conflict path and the guards
\* are not yet released: HEAD is still the commit the merge was attempted on.
PublishedBranch == ConflictPath /\ pc \in {"pr_list", "pr_edit", "pr_create", "write_status"}

\* C23: on the conflict path the commit force-pushed to the pull-request
\* fork's merge branch is the upstream commit whose merge produced the
\* conflicts the body describes, also when conan-io's branch advances
\* between the merge attempt and the publish step: the commits the body
\* lists as upstream's (HEAD..MERGE_HEAD) are the commits of the pushed
\* branch that HEAD lacks.
C23_PushedCommitIsMergedCommit ==
    PublishedBranch => prForkTip \ headCommit = pr_body.upstream

\* C23, what holds: the pushed commit is the one the second fetch brought,
\* which is the merged commit or a descendant of it.
C23_PushedDescendsFromMerged ==
    PublishedBranch =>
        /\ pr_body.upstream \subseteq prForkTip \ headCommit
        /\ prForkTip = fetchHead

\* C23: the state the code reaches when the claim fails: a commit landed on
\* conan-io's branch after the merge attempt; the branch pushed for the pull
\* request holds it, the body that describes the conflicts does not know it.
C23_PushedNewerCommit ==
    /\ PublishedBranch
    /\ pc = "write_status"
    /\ \A i \in 1..Len(trace) : ~trace[i].fault
    /\ pr_body.upstream = {<<"C", 0>>}
    /\ prForkTip = AheadCommit \cup {<<"U", 1>>}

\* ----------------------------------------------- more than one tool failure
\* The last invocation of a behaviour, with conan-io ahead of the private
\* fork, in which the tools may fail once more than MaxFaults times: a
\* failure can be followed by the failure of a command that cleans up.
InitFailures == InitAt(AheadCommit, MaxRuns - 1, MaxFaults + 1)

SpecFailures == InitFailures /\ [][Next]_vars

\* _form_pr_body raised.
BodyFailed == \E i \in 1..Len(trace) : trace[i].cmd = "form_pr_body" /\ ~trace[i].ok
BodyFailures == {UnexpectedExit(BodyCommands[k]) : k \in 1..Len(BodyCommands)}
RestorationFailures == {UnexpectedExit("restore_checkout"), UnexpectedExit("restore_reset")}

\* C24 as stated: when building the pull-request body fails on the conflict
\* path the merge in progress is still aborted, no pull request is created
\* or edited, no branch is pushed to the pull-request fork, no outcome is
\* recorded, and the failure propagates after the guards have restored the
\* original checkout.
C24_AbortedAndRestored ==
    (pc = "done" /\ BodyFailed) =>
        /\ Succeeded("merge_abort")
        /\ mergeHead = NoCommit
        /\ NoPullRequestTouched
        /\ ~Attempted("pr_push")
        /\ NoStatusWritten
        /\ err # NoErr
        /\ Restored

\* C24, amended: when building the pull-request body fails on the conflict
\* path the abort of the merge is still attempted, no pull request is
\* created or edited, nothing is fetched for or pushed to the pull-request
\* fork, no outcome is recorded and the run fails after both guards were
\* released.  When the abort and both restoration commands succeed, the
\* failure of the body reaches the caller, no merge is in progress and the
\* checkout is restored; when the abort fails its failure replaces the
\* body's and the merge stays in progress until the restoration; when a
\* restoration command fails its failure reaches the caller and the checkout
\* is not known to be restored.
C24_BodyFailureUnwinds ==
    BodyFailed =>
        /\ ConflictPath
        /\ NoPullRequestTouched
        /\ ~Attempted("pr_fetch") /\ ~Attempted("pr_push") /\ ~Attempted("pr_list")
        /\ NoStatusWritten
        /\ Attempted("merge_abort") \/ pc = "merge_abort"
        /\ Succeeded("merge_abort") => mergeHead = NoCommit /\ unmerged = {}
        /\ pc = "done" =>
              /\ Attempted("remote_remove")
              /\ Attempted("restore_checkout")
              /\ IF ~RestorationSucceeded THEN err \in RestorationFailures
                 ELSE /\ Restored
                      /\ mergeHead = NoCommit /\ unmerged = {}
                      /\ IF Succeeded("merge_abort") THEN err \in BodyFailures
                         ELSE err = UnexpectedExit("merge_abort")

\* C24 witness: a command of _form_pr_body failed; the merge was aborted,
\* the guards were released and the failure of that command reached the
\* caller with the checkout restored.
C24_Witness ==
    /\ pc = "done"
    /\ BodyFailed
    /\ Succeeded("merge_abort")
    /\ RestorationSucceeded
    /\ Restored
    /\ err = UnexpectedExit("log_upstream")

\* C24: the body failed and then the abort failed: the run that began on a
\* detached HEAD ends with the merge still in progress and the checkout not
\* restored.
C24_MergeLeftInProgress ==
    /\ pc = "done"
    /\ BodyFailed
    /\ ~Succeeded("merge_abort")
    /\ mergeHead # NoCommit
    /\ unmerged # {}
    /\ ~Restored

\* A command that sets the temporary remote up failed.
SetupCommands == {"remote_set_url", "remote_add", "remote_update"}
SetupFailed == \E i \in 1..Len(trace) : trace[i].cmd \in SetupCommands /\ ~trace[i].ok

\* C25: when setting the temporary remote up fails (git remote add, set-url
\* or update) no command of the merge step and of the pull-request fallback
\* is ever run, the removal of the remote is still attempted, and the run
\* ends in failure with no outcome recorded and with the checkout on the
\* branch and commit it had when the state guard was acquired, also when a
\* command of the release fails in turn.
C25_FailedSetupUnwinds ==
    SetupFailed =>
        /\ \A i \in 1..Len(trace) :
              trace[i].cmd \notin MergeStep \cup PublishCommands \cup {"form_pr_body", "merge_abort"}
        /\ pc \in {"remote_remove", "restore_checkout", "restore_reset", "done"}
        /\ pc # "remote_remove" => Attempted("remote_remove")
        /\ NoStatusWritten
        /\ err # NoErr
        /\ Restored
        /\ mergeHead = NoCommit /\ unmerged = {}
        /\ pc = "done" =>
              /\ Attempted("restore_checkout")
              /\ IF RestorationSucceeded
                 THEN err.cmd \in SetupCommands
                 ELSE err \in RestorationFailures

\* C25 witness: the remote was added, its update failed; the remote was
\* removed again, the restoration ran and the failure of the update reached
\* the caller.
C25_Witness ==
    /\ pc = "done"
    /\ Succeeded("remote_add")
    /\ Succeeded("remote_remove")
    /\ RestorationSucceeded
    /\ Restored
    /\ err = UnexpectedExit("remote_update")
    /\ statusFile = StatusMissing

\* C25: the setting up failed and a restoration command failed after it: the
\* checkout is where it was all the same, since nothing had moved it.
C25_ReleaseFailedToo ==
    /\ pc = "done"
    /\ SetupFailed
    /\ err \in RestorationFailures
    /\ Restored

\* -------------------------------------------------- no merge left behind
\* No merge is in progress and the index has no unmerged entries.
NoMergeInProgress == mergeHead = NoCommit /\ unmerged = {}

C26_CleanAtExit ==
    (pc = "done" /\ ScopeEntered /\ RestorationSucceeded) => NoMergeInProgress

C26_CleanAfterCheckout ==
    (pc = "restore_checkout" /\ pc' = "restore_reset") => NoMergeInProgress'

\* C26: no merge is left in progress: on every path out of the guarded scope
\* on which both restoration commands succeed (after a clean merge, an
\* up-to-date merge, the conflict fallback, an unexpected merge failure or a
\* publish failure) the working tree at exit has no merge in progress and
\* no unmerged index entries; it has none from the moment the checkout of
\* the restoration has succeeded.
C26_NoMergeLeftInProgress == []C26_CleanAtExit /\ [][C26_CleanAfterCheckout]_vars

\* C26 witness: the merge stopped on conflicts, git ls-files failed, so the
\* merge was never aborted; the run began on a named branch, the forced
\* checkout and the hard reset succeeded, and nothing of the merge is left.
C26_Witness ==
    /\ pc = "done"
    /\ \E i \in 1..Len(trace) : trace[i].cmd = "merge" /\ ~trace[i].ok /\ ~trace[i].fault
    /\ raised = UnexpectedExit("merge")
    /\ ~Attempted("merge_abort")
    /\ branch = WorkBranch
    /\ RestorationSucceeded
    /\ NoMergeInProgress

\* ------------------------------------------------------------- termination
\* A step of the running invocation: the command it is at returns, with a
\* result or with a failure, and the invocation moves on.
Running == pc \notin {"idle", "done"}
CommandReturns == Next /\ Running /\ pc' # pc

\* The last invocation of a behaviour, the two branches at the same commit;
\* the tools may fail once more than MaxFaults times.
InitLast == InitAt(BaseCommit, MaxRuns - 1, MaxFaults + 1)

\* Every external command the task invokes returns.
SpecLive == InitLast /\ [][Next]_vars /\ WF_vars(CommandReturns)

\* The guards were acquired: the second one is acquired once the first is.
GuardsAcquired == ScopeEntered

C27_ReleasedInOrder ==
    (pc = "done" /\ GuardsAcquired) =>
        \E i, j \in 1..Len(trace) :
            /\ i < j
            /\ trace[i].cmd = "remote_remove"
            /\ trace[j].cmd = "restore_checkout"
            /\ trace[j].ok => j < Len(trace) /\ trace[j + 1].cmd = "restore_reset"

C27_NoStepRepeated == Cardinality({trace[i].cmd : i \in 1..Len(trace)}) = Len(trace)

\* C27: provided every external command returns, every invocation of
\* merge_upstream ends, with an outcome or with an error; an invocation that
\* acquired the guards ends only after both releases were executed, the
\* removal of the remote first and the restoration after it (its second
\* command when the first succeeded); and no step is run twice in one
\* invocation.
C27_TerminatesAfterReleases ==
    /\ Running ~> pc = "done"
    /\ GuardsAcquired ~> (pc = "done" /\ Attempted("remote_remove") /\ Attempted("restore_checkout"))
    /\ []C27_ReleasedInOrder
    /\ []C27_NoStepRepeated

\* C27 witness: a run that acquired the guards, failed in the merge step and
\* ended after the remote was removed and the checkout restored, no step of
\* it run twice.
C27_Witness ==
    /\ pc = "done"
    /\ GuardsAcquired
    /\ err = UnexpectedExit("fetch")
    /\ Succeeded("remote_remove")
    /\ RestorationSucceeded
    /\ Len(trace) = 16

====
